---- MODULE Spec2Model ----
(***************************************************************************)
(* Model of ipalib/plugins/aci2.py: the aci2 commands (create, delete,     *)
(* mod, find, show) over the multi-valued "aci" attribute of the base DN.  *)
(*                                                                         *)
(* Strings are modelled by what the code does with them:                   *)
(*   - an ACI name is a sequence of characters (lower(), find());          *)
(*   - a target URI is [scheme, rest]: scheme says whether the text starts *)
(*     with "ldap:///";                                                    *)
(*   - a filter is [paren, body]: paren says whether the text is wrapped   *)
(*     in parentheses;                                                     *)
(*   - a task-group name is [base, wrap]: the text obtained from base by   *)
(*     applying "ldap:///<DN of the task-group named ...>" wrap times, so  *)
(*     that the bind rule expression of the task-group named n is          *)
(*     [base |-> n.base, wrap |-> n.wrap + 1].                             *)
(***************************************************************************)
EXTENDS Integers, Sequences, FiniteSets, TLC

\* ------------------------------------------------------------------ bounds
MaxAcis == 2      \* longest initial value list of the aci attribute
MaxWrap == 3      \* deepest nesting of a task-group name built from a bind rule
MaxTokens == 3    \* most comma-separated tokens of a permissions string

\* ----------------------------------------------------------- small helpers
Range(s) == {s[i] : i \in DOMAIN s}

Min(S) == CHOOSE x \in S : \A y \in S : x <= y

\* unicode.lower() on one character
LowerChar(c) == IF c = "A" THEN "a" ELSE IF c = "B" THEN "b" ELSE c

\* unicode.lower()
Lower(s) == [i \in 1..Len(s) |-> LowerChar(s[i])]

\* unicode.lower() on a whole token (an attribute name, a permission)
LowerToken(t) ==
    CASE t = "CN" -> "cn" [] t = "SN" -> "sn" [] t = "READ" -> "read"
      [] t = "Write" -> "write" [] t = "Add" -> "add" [] OTHER -> t

\* [t.lower() for t in tokens]
LowerTokens(tokens) == [i \in 1..Len(tokens) |-> LowerToken(tokens[i])]

\* unicode.find(sub) != -1
Contains(s, sub) ==
    \E i \in 0..Len(s) :
        /\ i + Len(sub) <= Len(s)
        /\ \A j \in 1..Len(sub) : s[i + j] = sub[j]

\* sorted(list): insertion into an ordered list, by a fixed total order on
\* the tokens that occur in the model
TokenRank(t) ==
    CASE t = "CN" -> 1 [] t = "SN" -> 2 [] t = "add" -> 3 [] t = "all" -> 4
      [] t = "cn" -> 5 [] t = "delete" -> 6 [] t = "read" -> 7
      [] t = "selfwrite" -> 8 [] t = "sn" -> 9 [] t = "write" -> 10
      [] OTHER -> 11

RECURSIVE InsertSorted(_, _)
InsertSorted(t, s) ==
    IF s = <<>> THEN <<t>>
    ELSE IF TokenRank(t) <= TokenRank(Head(s)) THEN <<t>> \o s
    ELSE <<Head(s)>> \o InsertSorted(t, Tail(s))

RECURSIVE sorted(_)
sorted(s) == IF s = <<>> THEN <<>> ELSE InsertSorted(Head(s), sorted(Tail(s)))

\* list.remove(x): drops the first element equal to x
RECURSIVE list_remove(_, _)
list_remove(s, x) ==
    IF s = <<>> THEN <<>>
    ELSE IF Head(s) = x THEN Tail(s)
    ELSE <<Head(s)>> \o list_remove(Tail(s), x)

\* dict.get(key, default)
dict_get(d, key, default) == IF key \in DOMAIN d THEN d[key] ELSE default

\* d[key] = value
dict_set(d, key, value) ==
    [k \in (DOMAIN d) \cup {key} |-> IF k = key THEN value ELSE d[k]]

EmptyDict == [k \in {} |-> 0]

\* ------------------------------------------------- lookup collaborators
T1 == [base |-> "t1", wrap |-> 0]
T2 == [base |-> "t2", wrap |-> 0]

\* 'ldap:///%s' % dn, dn the DN of the task-group named tg
TaskgroupUri(tg) == [base |-> tg.base, wrap |-> tg.wrap + 1]

GroupNames == {"g1", "g2"}

\* DN of the group named g, as returned by group2_show
GroupDN(g) == IF g = "g1" THEN "cn=g1,cn=groups,dc=example"
              ELSE "cn=g2,cn=groups,dc=example"

\* 'memberOf=%s' % dn
MemberOfBody(g) == IF g = "g1" THEN "memberOf=cn=g1,cn=groups,dc=example"
                   ELSE "memberOf=cn=g2,cn=groups,dc=example"

_type_map ==
    [user  |-> [scheme |-> TRUE, rest |-> "uid=*,cn=users,dc=example"],
     group |-> [scheme |-> TRUE, rest |-> "cn=*,cn=groups,dc=example"],
     host  |-> [scheme |-> TRUE, rest |-> "cn=*,cn=computers,dc=example"]]

_valid_permissions_values ==
    <<"read", "write", "add", "delete", "selfwrite", "all">>

\* ------------------------------------------------------ ACI (ipalib.aci)
\* ACI(None): an ACI with nothing set
NewACI ==
    [name |-> <<>>, permissions |-> <<"write">>,
     bindrule |-> EmptyDict, target |-> EmptyDict]

\* a.set_bindrule('<keyword> <operator> "<expression>"')
set_bindrule(a, keyword, operator, expression) ==
    [a EXCEPT !.bindrule =
        [keyword |-> keyword, operator |-> operator, expression |-> expression]]

\* a.set_target(target): replaces the target clause
set_target(a, target) ==
    [a EXCEPT !.target =
        dict_set(a.target, "target", [operator |-> "=", expression |-> target])]

\* a.set_target_attr(attrs): replaces the targetattr clause
set_target_attr(a, attrs) ==
    [a EXCEPT !.target =
        dict_set(a.target, "targetattr", [operator |-> "=", expression |-> attrs])]

\* a.set_target_filter(filter): replaces the targetfilter clause; the stored
\* expression is parenthesised
set_target_filter(a, filter) ==
    [a EXCEPT !.target =
        dict_set(a.target, "targetfilter",
                 [operator |-> "=",
                  expression |-> [paren |-> TRUE, body |-> filter.body]])]

\* str(aci): the canonical text of an ACI
\*   (target clauses)(version 3.0;acl "<name>";allow (<perms>) <bind rule>;)
Serialize(a) ==
    [malformed |-> FALSE, fmt |-> "canonical",
     clauses |-> a.target,
     acl |-> a.name,
     allow |-> a.permissions,
     bind |-> <<a.bindrule.keyword, a.bindrule.operator, a.bindrule.expression>>]

\* does ACI(text) raise SyntaxError
ParseFails(text) == text.malformed

\* ACI(text) for a text that parses
Parse(text) ==
    [name |-> text.acl, permissions |-> text.allow,
     bindrule |-> [keyword |-> text.bind[1], operator |-> text.bind[2],
                   expression |-> text.bind[3]],
     target |-> text.clauses]

\* a.isequal(b), both ACI objects
isequal(a, b) ==
    /\ Lower(a.name) = Lower(b.name)
    /\ Range(a.permissions) = Range(b.permissions)
    /\ a.bindrule = b.bindrule
    /\ a.target = b.target

\* aci.isequal(text), text a raw stored value
isequal_str(a, text) == ~ParseFails(text) /\ isequal(a, Parse(text))

\* ------------------------------------------------------------ module code
\* api.Command['taskgroup2_show'](name) raises NotFound
taskgroup2_show_fails(tgs, name) == name \notin tgs

\* api.Command['group2_show'](name) raises NotFound
group2_show_fails(grps, name) == name \notin grps

\* _make_aci with the type applied after the subtree
_make_aci_typelast(aciname, kw, tgs, grps) ==
    LET tgs1 == IF taskgroup2_show_fails(tgs, kw.taskgroup)
                THEN tgs \cup {kw.taskgroup}        \* taskgroup2_create
                ELSE tgs
        made == IF taskgroup2_show_fails(tgs, kw.taskgroup)
                THEN <<[name |-> kw.taskgroup, description |-> aciname]>>
                ELSE <<>>
        a0 == [NewACI EXCEPT !.name = aciname, !.permissions = kw.permissions]
        a1 == set_bindrule(a0, "groupdn", "=", TaskgroupUri(kw.taskgroup))
        a2 == IF "attrs" \in DOMAIN kw THEN set_target_attr(a1, kw.attrs) ELSE a1
        memberof_fails == "memberof" \in DOMAIN kw
                          /\ group2_show_fails(grps, kw.memberof)
        a3 == IF "memberof" \in DOMAIN kw
              THEN set_target_filter(a2, [paren |-> FALSE,
                                          body |-> MemberOfBody(kw.memberof)])
              ELSE a2
        a4 == IF "filter" \in DOMAIN kw THEN set_target_filter(a3, kw.filter) ELSE a3
        a5 == a4
        targetgroup_fails == "targetgroup" \in DOMAIN kw
                             /\ group2_show_fails(grps, kw.targetgroup)
        a6 == IF "targetgroup" \in DOMAIN kw
              THEN set_target(a5, [scheme |-> TRUE, rest |-> GroupDN(kw.targetgroup)])
              ELSE a5
        a7 == IF "subtree" \in DOMAIN kw
              THEN set_target(a6, IF kw.subtree.scheme THEN kw.subtree
                                  ELSE [scheme |-> TRUE, rest |-> kw.subtree.rest])
              ELSE a6
        a8 == IF "type" \in DOMAIN kw THEN set_target(a7, _type_map[kw.type]) ELSE a7
    IN  IF memberof_fails \/ targetgroup_fails
        THEN [err |-> "NotFound", aci |-> NewACI, taskgroups |-> tgs1,
              tg_created |-> made]
        ELSE [err |-> "", aci |-> a8, taskgroups |-> tgs1, tg_created |-> made]

\* _make_aci that does not add a task-group it did not find
_make_aci_nocreate(aciname, kw, tgs, grps) ==
    LET tgs1 == tgs
        made == <<>>
        a0 == [NewACI EXCEPT !.name = aciname, !.permissions = kw.permissions]
        a1 == set_bindrule(a0, "groupdn", "=", TaskgroupUri(kw.taskgroup))
        a2 == IF "attrs" \in DOMAIN kw THEN set_target_attr(a1, kw.attrs) ELSE a1
        memberof_fails == "memberof" \in DOMAIN kw
                          /\ group2_show_fails(grps, kw.memberof)
        a3 == IF "memberof" \in DOMAIN kw
              THEN set_target_filter(a2, [paren |-> FALSE,
                                          body |-> MemberOfBody(kw.memberof)])
              ELSE a2
        a4 == IF "filter" \in DOMAIN kw THEN set_target_filter(a3, kw.filter) ELSE a3
        a5 == IF "type" \in DOMAIN kw THEN set_target(a4, _type_map[kw.type]) ELSE a4
        targetgroup_fails == "targetgroup" \in DOMAIN kw
                             /\ group2_show_fails(grps, kw.targetgroup)
        a6 == IF "targetgroup" \in DOMAIN kw
              THEN set_target(a5, [scheme |-> TRUE, rest |-> GroupDN(kw.targetgroup)])
              ELSE a5
        a7 == IF "subtree" \in DOMAIN kw
              THEN set_target(a6, IF kw.subtree.scheme THEN kw.subtree
                                  ELSE [scheme |-> TRUE, rest |-> kw.subtree.rest])
              ELSE a6
    IN  IF memberof_fails \/ targetgroup_fails
        THEN [err |-> "NotFound", aci |-> NewACI, taskgroups |-> tgs1,
              tg_created |-> made]
        ELSE [err |-> "", aci |-> a7, taskgroups |-> tgs1, tg_created |-> made]

\* _make_aci(None, aciname, kw): the ACI built from a request, the error it
\* raises if any, the task-group store afterwards and the taskgroup2_create
\* calls made
_make_aci(aciname, kw, tgs, grps) ==
    LET tgs1 == IF taskgroup2_show_fails(tgs, kw.taskgroup)
                THEN tgs \cup {kw.taskgroup}        \* taskgroup2_create
                ELSE tgs
        made == IF taskgroup2_show_fails(tgs, kw.taskgroup)
                THEN <<[name |-> kw.taskgroup, description |-> aciname]>>
                ELSE <<>>
        a0 == [NewACI EXCEPT !.name = aciname, !.permissions = kw.permissions]
        a1 == set_bindrule(a0, "groupdn", "=", TaskgroupUri(kw.taskgroup))
        a2 == IF "attrs" \in DOMAIN kw THEN set_target_attr(a1, kw.attrs) ELSE a1
        memberof_fails == "memberof" \in DOMAIN kw
                          /\ group2_show_fails(grps, kw.memberof)
        a3 == IF "memberof" \in DOMAIN kw
              THEN set_target_filter(a2, [paren |-> FALSE,
                                          body |-> MemberOfBody(kw.memberof)])
              ELSE a2
        a4 == IF "filter" \in DOMAIN kw THEN set_target_filter(a3, kw.filter) ELSE a3
        a5 == IF "type" \in DOMAIN kw THEN set_target(a4, _type_map[kw.type]) ELSE a4
        targetgroup_fails == "targetgroup" \in DOMAIN kw
                             /\ group2_show_fails(grps, kw.targetgroup)
        a6 == IF "targetgroup" \in DOMAIN kw
              THEN set_target(a5, [scheme |-> TRUE, rest |-> GroupDN(kw.targetgroup)])
              ELSE a5
        a7 == IF "subtree" \in DOMAIN kw
              THEN set_target(a6, IF kw.subtree.scheme THEN kw.subtree
                                  ELSE [scheme |-> TRUE, rest |-> kw.subtree.rest])
              ELSE a6
    IN  IF memberof_fails \/ targetgroup_fails
        THEN [err |-> "NotFound", aci |-> NewACI, taskgroups |-> tgs1,
              tg_created |-> made]
        ELSE [err |-> "", aci |-> a7, taskgroups |-> tgs1, tg_created |-> made]

\* _convert_strings_to_acis with the loop left at the first SyntaxError
RECURSIVE _convert_strings_to_acis_stop(_)
_convert_strings_to_acis_stop(acistrs) ==
    IF acistrs = <<>> THEN <<>>
    ELSE IF ParseFails(Head(acistrs)) THEN <<>>
         ELSE <<Parse(Head(acistrs))>> \o _convert_strings_to_acis_stop(Tail(acistrs))

\* _convert_strings_to_acis(acistrs): values that raise SyntaxError are skipped
RECURSIVE _convert_strings_to_acis(_)
_convert_strings_to_acis(acistrs) ==
    IF acistrs = <<>> THEN <<>>
    ELSE IF ParseFails(Head(acistrs))
         THEN _convert_strings_to_acis(Tail(acistrs))
         ELSE <<Parse(Head(acistrs))>> \o _convert_strings_to_acis(Tail(acistrs))

\* _find_aci_by_name matching as the term of aci2_find does, by substring
_find_aci_by_name_substring(acis, aciname) ==
    LET hits == {i \in DOMAIN acis : Contains(Lower(acis[i].name), Lower(aciname))}
    IN  IF hits = {} THEN 0 ELSE Min(hits)

\* _find_aci_by_name(acis, aciname): index of the first ACI whose lowered
\* name equals the lowered aciname, 0 when the function raises NotFound
_find_aci_by_name(acis, aciname) ==
    LET hits == {i \in DOMAIN acis : Lower(acis[i].name) = Lower(aciname)}
    IN  IF hits = {} THEN 0 ELSE Min(hits)

\* A permissions string is the list of its comma-separated tokens, as
\* permissions.split(',') returns them: each token is a word with or without
\* blanks around it, and the empty string is the one empty token.
Token(lead, word, trail) == [lead |-> lead, word |-> word, trail |-> trail]

\* p.strip()
strip(p) == p.word

\* ','.join(words)
join(words) ==
    IF words = <<>> THEN <<Token(FALSE, "", FALSE)>>
    ELSE [i \in 1..Len(words) |-> Token(FALSE, words[i], FALSE)]

\* the loop of _normalize_permissions with the test "p not in
\* valid_permissions" left out
RECURSIVE normalize_loop_nodedup(_, _)
normalize_loop_nodedup(permissions, valid_permissions) ==
    IF permissions = <<>> THEN valid_permissions
    ELSE LET p == LowerToken(strip(Head(permissions)))
         IN  normalize_loop_nodedup(Tail(permissions),
                 IF p \in Range(_valid_permissions_values)
                 THEN Append(valid_permissions, p)
                 ELSE valid_permissions)

\* for p in permissions: p = p.strip().lower(); accumulate the valid ones
RECURSIVE normalize_loop(_, _)
normalize_loop(permissions, valid_permissions) ==
    IF permissions = <<>> THEN valid_permissions
    ELSE LET p == LowerToken(strip(Head(permissions)))
         IN  normalize_loop(Tail(permissions),
                 IF p \in Range(_valid_permissions_values)
                        /\ p \notin Range(valid_permissions)
                 THEN Append(valid_permissions, p)
                 ELSE valid_permissions)

\* _normalize_permissions(permissions)
_normalize_permissions(permissions) == join(normalize_loop(permissions, <<>>))

\* ldap.get_entry(basedn, ['aci'])[1]: the attribute map of the base entry
get_entry(stored) == IF stored = <<>> THEN EmptyDict ELSE [aci |-> stored]

\* create_after_read looking for the candidate's text among the stored texts
\* instead of comparing ACIs
create_after_read_text(made, entry_attrs, stored) ==
    LET acistrs == dict_get(entry_attrs, "aci", <<>>)
        newaci_str == Serialize(made.aci)
    IN  IF newaci_str \in Range(acistrs)
        THEN [err |-> "DuplicateEntry", ret |-> <<>>, stored |-> stored,
              wrote |-> FALSE]
        ELSE IF "acis" \notin DOMAIN entry_attrs
        THEN [err |-> "KeyError", ret |-> <<>>, stored |-> stored,
              wrote |-> FALSE]
        ELSE [err |-> "", ret |-> <<newaci_str>>,
              stored |-> acistrs, wrote |-> TRUE]

\* create_after_read taking a stored ACI of the candidate's name for a
\* duplicate
create_after_read_byname(made, entry_attrs, stored) ==
    LET acis == _convert_strings_to_acis(dict_get(entry_attrs, "aci", <<>>))
        newaci_str == Serialize(made.aci)
    IN  IF \E i \in DOMAIN acis : Lower(acis[i].name) = Lower(made.aci.name)
        THEN [err |-> "DuplicateEntry", ret |-> <<>>, stored |-> stored,
              wrote |-> FALSE]
        ELSE IF "acis" \notin DOMAIN entry_attrs
        THEN [err |-> "KeyError", ret |-> <<>>, stored |-> stored,
              wrote |-> FALSE]
        ELSE [err |-> "", ret |-> <<newaci_str>>,
              stored |-> dict_get(entry_attrs, "aci", <<>>), wrote |-> TRUE]

\* aci2_create.execute after _make_aci, given the entry it read: the loop
\* over the stored ACIs, the append and the write
create_after_read(made, entry_attrs, stored) ==
    LET acis == _convert_strings_to_acis(dict_get(entry_attrs, "aci", <<>>))
        newaci_str == Serialize(made.aci)
    IN  IF \E i \in DOMAIN acis : isequal(acis[i], made.aci)
        THEN [err |-> "DuplicateEntry", ret |-> <<>>, stored |-> stored,
              wrote |-> FALSE]
        ELSE IF "acis" \notin DOMAIN entry_attrs      \* entry_attrs['acis']
        THEN [err |-> "KeyError", ret |-> <<>>, stored |-> stored,
              wrote |-> FALSE]
        ELSE \* 'acis' is appended to; the 'aci' value is written back as read
             [err |-> "", ret |-> <<newaci_str>>,
              stored |-> dict_get(entry_attrs, "aci", <<>>), wrote |-> TRUE]

\* aci2_create.execute(aciname, **kw)
aci2_create(stored, tgs, grps, aciname, kw) ==
    LET made == _make_aci(aciname, kw, tgs, grps)
        r == create_after_read(made, get_entry(stored), stored)
    IN  IF made.err # ""
        THEN [err |-> made.err, ret |-> <<>>, stored |-> stored,
              taskgroups |-> made.taskgroups, wrote |-> FALSE]
        ELSE [err |-> r.err, ret |-> r.ret, stored |-> r.stored,
              taskgroups |-> made.taskgroups, wrote |-> r.wrote]

\* delete_after_read without the break: every equal value is removed
delete_after_read_all(entry_attrs, stored, aciname) ==
    LET acistrs == dict_get(entry_attrs, "aci", <<>>)
        acis == _convert_strings_to_acis(acistrs)
        k == _find_aci_by_name(acis, aciname)
        left == SelectSeq(acistrs, LAMBDA t : ~isequal_str(acis[k], t))
    IN  IF k = 0
        THEN [err |-> "NotFound", ret |-> <<>>, stored |-> stored, wrote |-> FALSE]
        ELSE [err |-> "", ret |-> <<>>, stored |-> left, wrote |-> TRUE]

\* delete_after_read working on the attribute as it is when the write is
\* made, not as it was read
delete_after_read_current(entry_attrs, stored, aciname) ==
    LET acistrs == stored
        acis == _convert_strings_to_acis(acistrs)
        k == _find_aci_by_name(acis, aciname)
        hits == {i \in DOMAIN acistrs : isequal_str(acis[k], acistrs[i])}
        left == IF hits = {} THEN acistrs
                ELSE list_remove(acistrs, acistrs[Min(hits)])
    IN  IF k = 0
        THEN [err |-> "NotFound", ret |-> <<>>, stored |-> stored, wrote |-> FALSE]
        ELSE [err |-> "", ret |-> <<>>, stored |-> left, wrote |-> TRUE]

\* aci2_delete.execute after get_entry, given the entry it read
delete_after_read(entry_attrs, stored, aciname) ==
    LET acistrs == dict_get(entry_attrs, "aci", <<>>)
        acis == _convert_strings_to_acis(acistrs)
        k == _find_aci_by_name(acis, aciname)
        hits == {i \in DOMAIN acistrs : isequal_str(acis[k], acistrs[i])}
        left == IF hits = {} THEN acistrs
                ELSE list_remove(acistrs, acistrs[Min(hits)])
    IN  IF k = 0
        THEN [err |-> "NotFound", ret |-> <<>>, stored |-> stored, wrote |-> FALSE]
        ELSE [err |-> "", ret |-> <<>>, stored |-> left, wrote |-> TRUE]

\* aci2_delete.execute(aciname)
aci2_delete(stored, aciname) == delete_after_read(get_entry(stored), stored, aciname)

\* aci2_show.execute(aciname)
aci2_show(stored, aciname) ==
    LET acis == _convert_strings_to_acis(dict_get(get_entry(stored), "aci", <<>>))
        k == _find_aci_by_name(acis, aciname)
    IN  IF k = 0 THEN [err |-> "NotFound", ret |-> <<>>]
        ELSE [err |-> "", ret |-> <<Serialize(acis[k])>>]

\* the keyword arguments aci2_mod passes to aci2_create: the request's, with
\* the missing ones taken from the existing ACI. The name goes to aci2_create
\* as the positional aciname of the request; the default task-group is the
\* bind rule's expression, the URI, as line 250 takes it.
mod_defaults(aci, kw) ==
    LET k1 == IF "taskgroup" \in DOMAIN kw THEN kw
              ELSE dict_set(kw, "taskgroup", aci.bindrule.expression)
        k2 == IF "permissions" \in DOMAIN k1 THEN k1
              ELSE dict_set(k1, "permissions", aci.permissions)
        k3 == IF "attrs" \in DOMAIN k2 THEN k2
              ELSE dict_set(k2, "attrs", aci.target.targetattr.expression)
        k4 == IF {"type", "targetgroup", "subtree"} \cap DOMAIN k3 = {}
              THEN dict_set(k3, "subtree", aci.target.target.expression)
              ELSE k3
        k5 == IF {"memberof", "filter"} \cap DOMAIN k4 = {}
              THEN dict_set(k4, "filter", aci.target.targetfilter.expression)
              ELSE k4
    IN  k5

\* does building those keyword arguments raise KeyError
mod_defaults_fail(aci, kw) ==
    \/ "targetattr" \notin DOMAIN aci.target
    \/ /\ {"type", "targetgroup", "subtree"} \cap DOMAIN kw = {}
       /\ "target" \notin DOMAIN aci.target
    \/ /\ {"memberof", "filter"} \cap DOMAIN kw = {}
       /\ "targetfilter" \notin DOMAIN aci.target

\* mod_result putting the deleted value back when the create step fails
mod_result_rollback(stored, d, c) ==
    [err |-> c.err, ret |-> c.ret,
     stored |-> IF c.err # "" THEN stored ELSE c.stored,
     taskgroups |-> c.taskgroups, deleted |-> TRUE, created |-> TRUE,
     after_delete |-> d.stored]

\* the result of aci2_mod, called on the value list stored, once its delete
\* step has returned d and its create step c: nothing is put back
mod_result(stored, d, c) ==
    [err |-> c.err, ret |-> c.ret, stored |-> c.stored,
     taskgroups |-> c.taskgroups, deleted |-> TRUE, created |-> TRUE,
     after_delete |-> d.stored]

\* aci2_mod.execute(aciname, **kw)
aci2_mod(stored, tgs, grps, aciname, kw) ==
    LET acis == _convert_strings_to_acis(dict_get(get_entry(stored), "aci", <<>>))
        k == _find_aci_by_name(acis, aciname)
        d == aci2_delete(stored, aciname)
        c == aci2_create(d.stored, tgs, grps, aciname, mod_defaults(acis[k], kw))
    IN  IF k = 0
        THEN [err |-> "NotFound", ret |-> <<>>, stored |-> stored,
              taskgroups |-> tgs, deleted |-> FALSE, created |-> FALSE,
              after_delete |-> stored]
        ELSE IF mod_defaults_fail(acis[k], kw)
        THEN [err |-> "KeyError", ret |-> <<>>, stored |-> stored,
              taskgroups |-> tgs, deleted |-> FALSE, created |-> FALSE,
              after_delete |-> stored]
        ELSE IF d.err # ""
        THEN [err |-> d.err, ret |-> <<>>, stored |-> d.stored,
              taskgroups |-> tgs, deleted |-> TRUE, created |-> FALSE,
              after_delete |-> d.stored]
        ELSE mod_result(stored, d, c)

\* one pass of aci2_find: for a in acis: if a is to be dropped:
\* results.remove(a); drop is the set of the objects the pass's test rejects
RECURSIVE remove_pass(_, _, _)
remove_pass(acis, results, drop) ==
    IF acis = <<>> THEN results
    ELSE remove_pass(Tail(acis),
                     IF Head(acis) \in drop THEN list_remove(results, Head(acis))
                     ELSE results,
                     drop)

\* term_pass comparing the name as stored, not lowered
RECURSIVE term_pass_cased(_, _, _)
term_pass_cased(acis, results, term) ==
    IF acis = <<>> THEN results
    ELSE term_pass_cased(Tail(acis),
                   IF /\ Contains(Head(acis).aci.name, term)
                      /\ Head(acis) \notin Range(results)
                   THEN Append(results, Head(acis))
                   ELSE results,
                   term)

\* the term pass of aci2_find: for a in acis: if the lowered name contains
\* the term and a not in results: results.append(a)
RECURSIVE term_pass(_, _, _)
term_pass(acis, results, term) ==
    IF acis = <<>> THEN results
    ELSE term_pass(Tail(acis),
                   IF /\ Contains(Lower(Head(acis).aci.name), term)
                      /\ Head(acis) \notin Range(results)
                   THEN Append(results, Head(acis))
                   ELSE results,
                   term)

\* the ACI objects aci2_find works on: two objects decoded from two stored
\* values are two objects, whatever they hold
find_objects(stored) ==
    LET acis == _convert_strings_to_acis(dict_get(get_entry(stored), "aci", <<>>))
    IN  [i \in 1..Len(acis) |-> [id |-> i, aci |-> acis[i]]]

\* the aciname pass of aci2_find
aciname_pass(acis, kw) ==
    remove_pass(acis, acis, {a \in Range(acis) : a.aci.name # kw.aciname})

\* the attrs pass of aci2_find raises KeyError: some ACI it meets has no
\* targetattr clause
attrs_pass_fails(acis, kw) ==
    \E a \in Range(acis) : "targetattr" \notin DOMAIN a.aci.target

\* the attrs pass of aci2_find
attrs_pass(acis, kw) ==
    remove_pass(acis, acis,
        {a \in Range(acis) :
            sorted(LowerTokens(a.aci.target.targetattr.expression))
                # sorted(LowerTokens(kw.attrs))})

\* taskgroup_pass with the test the wrong way round
taskgroup_pass_inverted(acis, kw, tgs) ==
    IF taskgroup2_show_fails(tgs, kw.taskgroup) THEN acis
    ELSE remove_pass(acis, acis,
            {a \in Range(acis) :
                a.aci.bindrule.expression = TaskgroupUri(kw.taskgroup)})

\* the taskgroup pass of aci2_find
taskgroup_pass(acis, kw, tgs) ==
    IF taskgroup2_show_fails(tgs, kw.taskgroup) THEN acis
    ELSE remove_pass(acis, acis,
            {a \in Range(acis) :
                a.aci.bindrule.expression # TaskgroupUri(kw.taskgroup)})

\* permissions_pass comparing the lists as given, without sorted()
permissions_pass_unsorted(acis, kw) ==
    remove_pass(acis, acis,
        {a \in Range(acis) : a.aci.permissions # kw.permissions})

\* the permissions pass of aci2_find
permissions_pass(acis, kw) ==
    remove_pass(acis, acis,
        {a \in Range(acis) : sorted(a.aci.permissions) # sorted(kw.permissions)})

\* memberof_pass without the else branch: an ACI with no targetfilter stays
memberof_pass_noelse(acis, kw, grps) ==
    IF group2_show_fails(grps, kw.memberof) THEN acis
    ELSE remove_pass(acis, acis,
            {a \in Range(acis) :
                IF "targetfilter" \in DOMAIN a.aci.target
                THEN a.aci.target.targetfilter.expression
                        # [paren |-> TRUE, body |-> MemberOfBody(kw.memberof)]
                ELSE FALSE})

\* the memberof pass of aci2_find
memberof_pass(acis, kw, grps) ==
    IF group2_show_fails(grps, kw.memberof) THEN acis
    ELSE remove_pass(acis, acis,
            {a \in Range(acis) :
                IF "targetfilter" \in DOMAIN a.aci.target
                THEN a.aci.target.targetfilter.expression
                        # [paren |-> TRUE, body |-> MemberOfBody(kw.memberof)]
                ELSE TRUE})

\* aci2_find.execute(term, **kw)
aci2_find(stored, tgs, grps, term, kw) ==
    LET acis0 == find_objects(stored)
        r1 == IF term # <<>> THEN term_pass(acis0, <<>>, Lower(term)) ELSE acis0
        r2 == IF "aciname" \in DOMAIN kw THEN aciname_pass(r1, kw) ELSE r1
        attrs_fail == "attrs" \in DOMAIN kw /\ attrs_pass_fails(r2, kw)
        r3 == IF "attrs" \in DOMAIN kw THEN attrs_pass(r2, kw) ELSE r2
        r4 == IF "taskgroup" \in DOMAIN kw THEN taskgroup_pass(r3, kw, tgs) ELSE r3
        r5 == IF "permissions" \in DOMAIN kw THEN permissions_pass(r4, kw) ELSE r4
        r6 == IF "memberof" \in DOMAIN kw THEN memberof_pass(r5, kw, grps) ELSE r5
    IN  IF attrs_fail THEN [err |-> "KeyError", ret |-> <<>>]
        ELSE [err |-> "", ret |-> [i \in 1..Len(r6) |-> Serialize(r6[i].aci)]]

\* ------------------------------------------------------------ the inputs
Names == {<<"a">>, <<"A">>, <<"a", "b">>, <<"b">>}

Terms == {<<>>, <<"a">>, <<"B">>, <<"b", "a">>}

UserSubtree == [scheme |-> TRUE, rest |-> "uid=*,cn=users,dc=example"]

EngFilter == [paren |-> TRUE, body |-> "ou=Engineering"]

FullTarget ==
    [target |-> [operator |-> "=", expression |-> UserSubtree],
     targetattr |-> [operator |-> "=", expression |-> <<"cn">>],
     targetfilter |-> [operator |-> "=", expression |-> EngFilter]]

MemberTarget ==
    [targetfilter |-> [operator |-> "=",
                       expression |-> [paren |-> TRUE, body |-> MemberOfBody("g1")]]]

AttrTarget ==
    [targetattr |-> [operator |-> "=", expression |-> <<"sn", "CN">>]]

Bind(tg) == [keyword |-> "groupdn", operator |-> "=", expression |-> TaskgroupUri(tg)]

SeedACI(name, perms, target) ==
    [name |-> name, permissions |-> perms, bindrule |-> Bind(T1), target |-> target]

\* a stored text that differs from the canonical one in formatting only
Spaced(text) == [text EXCEPT !.fmt = "spaced"]

\* a stored text the parser rejects
Broken(text) == [text EXCEPT !.malformed = TRUE]

\* the values the aci attribute may hold when the model starts
StoredPool ==
    { Serialize(SeedACI(<<"a">>, <<"read">>, EmptyDict)),
      Spaced(Serialize(SeedACI(<<"a">>, <<"read">>, EmptyDict))),
      Serialize(SeedACI(<<"A">>, <<"write">>, FullTarget)),
      Serialize(SeedACI(<<"a">>, <<"read">>, FullTarget)),
      Serialize(SeedACI(<<"a", "b">>, <<"read", "write">>, MemberTarget)),
      Serialize(SeedACI(<<"b">>, <<"write", "read">>, FullTarget)),
      Serialize([SeedACI(<<"b">>, <<"read", "write", "add">>, AttrTarget)
                    EXCEPT !.bindrule = Bind(T2)]),
      Broken(Serialize(SeedACI(<<"b">>, <<"read">>, EmptyDict))) }

\* the sequences over S of length at most n
RECURSIVE SeqsUpTo(_, _)
SeqsUpTo(S, n) ==
    IF n = 0 THEN {<<>>}
    ELSE LET shorter == SeqsUpTo(S, n - 1)
         IN  shorter \cup {Append(s, x) : s \in shorter, x \in S}

NoDuplicates(s) == \A i, j \in DOMAIN s : i # j => s[i] # s[j]

\* an LDAP attribute holds a set of distinct values, in the order read
InitialStores == {s \in SeqsUpTo(StoredPool, MaxAcis) : NoDuplicates(s)}

\* the keyword arguments of the requests
KwPool ==
    { EmptyDict,
      [permissions |-> <<"read">>],
      [taskgroup |-> T1, permissions |-> <<"read">>],
      [taskgroup |-> T2, permissions |-> <<"write">>],
      [taskgroup |-> T1, permissions |-> <<"write", "read">>, memberof |-> "g1"],
      [taskgroup |-> T2, permissions |-> <<"read">>, memberof |-> "g2"],
      [taskgroup |-> T1, permissions |-> <<"read">>, targetgroup |-> "g2"],
      [taskgroup |-> T1, permissions |-> <<"read">>, attrs |-> <<"cn">>,
       subtree |-> UserSubtree, filter |-> EngFilter],
      [taskgroup |-> T1, permissions |-> <<"write">>, attrs |-> <<"sn", "CN">>,
       type |-> "user", targetgroup |-> "g1",
       subtree |-> [scheme |-> FALSE, rest |-> "ou=people,dc=example"],
       memberof |-> "g1", filter |-> [paren |-> FALSE, body |-> "ou=Engineering"]],
      [memberof |-> "g2"],
      [attrs |-> <<"sn">>, type |-> "host"],
      [taskgroup |-> T1, permissions |-> <<"read">>, type |-> "user",
       targetgroup |-> "g1"],
      [taskgroup |-> T1, permissions |-> <<"read">>, type |-> "group"] }

CreateKw == {kw \in KwPool : {"taskgroup", "permissions"} \subseteq DOMAIN kw}

FindKwPool ==
    { EmptyDict,
      [aciname |-> <<"a">>],
      [attrs |-> <<"CN">>],
      [taskgroup |-> T1],
      [taskgroup |-> T2],
      [permissions |-> <<"write", "read">>],
      [memberof |-> "g1"],
      [memberof |-> "g2"],
      [taskgroup |-> T1, permissions |-> <<"read">>, memberof |-> "g1"],
      [attrs |-> <<"cn", "SN">>],
      [permissions |-> <<"write", "read">>, memberof |-> "g1"],
      [aciname |-> <<"b">>, attrs |-> <<"cn">>, permissions |-> <<"read", "write">>] }

\* the tokens of the permissions strings given to the normalizer
PermTokens ==
    { Token(FALSE, "read", FALSE), Token(TRUE, "READ", TRUE),
      Token(FALSE, "write", FALSE), Token(TRUE, "Write", FALSE),
      Token(FALSE, "Add", TRUE), Token(FALSE, "all", FALSE),
      Token(FALSE, "bogus", FALSE), Token(TRUE, "", FALSE),
      Token(FALSE, "", FALSE) }

PermStrings == SeqsUpTo(PermTokens, MaxTokens) \ {<<>>}

\* -------------------------------------------------------------- the state
VARIABLES
    aci_attr,      \* the values of the aci attribute of the base entry, in order
    taskgroups,    \* the names taskgroup2_show resolves
    groups,        \* the names group2_show resolves
    call,          \* the command that has returned and is not yet output: its
                   \* request, its result and the stores it started from
    pc,            \* per concurrent request: "idle", "read" (entry read), "done"
    req,           \* per concurrent request: the command and its arguments
    snap,          \* per concurrent request: the attribute map get_entry returned
    res,           \* per concurrent request: the error it returned, "" for none
    writers,       \* the concurrent requests that called update_entry, in order
    overlap        \* some request wrote while the other held an entry it had read

vars == <<aci_attr, taskgroups, groups, call, pc, req, snap, res, writers, overlap>>

conc == <<pc, req, snap, res, writers, overlap>>

Procs == {1, 2}

NoReq == [cmd |-> "none", aciname |-> <<>>, kw |-> EmptyDict, made |-> NewACI]

NoCall ==
    [cmd |-> "none", aciname |-> <<>>, term |-> <<>>, kw |-> EmptyDict,
     err |-> "", ret |-> <<>>, before |-> <<>>, tg_before |-> {},
     deleted |-> FALSE, created |-> FALSE, after_delete |-> <<>>]

Init ==
    /\ aci_attr \in InitialStores
    /\ taskgroups = {T1}
    /\ groups = {"g1"}
    /\ call = NoCall
    /\ pc = [p \in Procs |-> "idle"]
    /\ req = [p \in Procs |-> NoReq]
    /\ snap = [p \in Procs |-> EmptyDict]
    /\ res = [p \in Procs |-> ""]
    /\ writers = <<>>
    /\ overlap = FALSE

Returned(cmd, aciname, term, kw, r) ==
    [cmd |-> cmd, aciname |-> aciname, term |-> term, kw |-> kw,
     err |-> r.err, ret |-> r.ret, before |-> aci_attr, tg_before |-> taskgroups,
     deleted |-> FALSE, created |-> FALSE, after_delete |-> aci_attr]

Create ==
    \E aciname \in Names, kw \in CreateKw :
        LET r == aci2_create(aci_attr, taskgroups, groups, aciname, kw)
        IN  /\ call.cmd = "none"
            /\ kw.taskgroup.wrap < MaxWrap
            /\ aci_attr' = r.stored
            /\ taskgroups' = r.taskgroups
            /\ call' = Returned("create", aciname, <<>>, kw, r)
            /\ UNCHANGED <<groups, conc>>

Delete ==
    \E aciname \in Names :
        LET r == aci2_delete(aci_attr, aciname)
        IN  /\ call.cmd = "none"
            /\ aci_attr' = r.stored
            /\ call' = Returned("delete", aciname, <<>>, EmptyDict, r)
            /\ UNCHANGED <<taskgroups, groups, conc>>

Mod ==
    \E aciname \in Names, kw \in KwPool :
        LET r == aci2_mod(aci_attr, taskgroups, groups, aciname, kw)
        IN  /\ call.cmd = "none"
            /\ \A i \in DOMAIN aci_attr :
                  ~ParseFails(aci_attr[i]) => Parse(aci_attr[i]).bindrule.expression.wrap < MaxWrap
            /\ aci_attr' = r.stored
            /\ taskgroups' = r.taskgroups
            /\ call' = [Returned("mod", aciname, <<>>, kw, r) EXCEPT
                            !.deleted = r.deleted, !.created = r.created,
                            !.after_delete = r.after_delete]
            /\ UNCHANGED <<groups, conc>>

\* Find adding, as _make_aci does, the task-group it does not find
Find_creating ==
    \E term \in Terms, kw \in FindKwPool :
        LET r == aci2_find(aci_attr, taskgroups, groups, term, kw)
        IN  /\ call.cmd = "none"
            /\ call' = Returned("find", <<>>, term, kw, r)
            /\ taskgroups' = IF "taskgroup" \in DOMAIN kw
                             THEN taskgroups \cup {kw.taskgroup}
                             ELSE taskgroups
            /\ UNCHANGED <<aci_attr, groups, conc>>

Find ==
    \E term \in Terms, kw \in FindKwPool :
        LET r == aci2_find(aci_attr, taskgroups, groups, term, kw)
        IN  /\ call.cmd = "none"
            /\ call' = Returned("find", <<>>, term, kw, r)
            /\ UNCHANGED <<aci_attr, taskgroups, groups, conc>>

Show ==
    \E aciname \in Names :
        LET r == aci2_show(aci_attr, aciname)
        IN  /\ call.cmd = "none"
            /\ call' = Returned("show", aciname, <<>>, EmptyDict, r)
            /\ UNCHANGED <<aci_attr, taskgroups, groups, conc>>

\* output_for_cli: the result is printed and the next command can be given
Output ==
    /\ call.cmd # "none"
    /\ call' = NoCall
    /\ UNCHANGED <<aci_attr, taskgroups, groups, conc>>

Next == Create \/ Delete \/ Mod \/ Find \/ Show \/ Output

Spec == Init /\ [][Next]_vars

\* ------------------------------------- the normalizer of the permissions
\* the framework hands the permissions string of a request to the normalizer
Normalize ==
    \E permissions \in PermStrings :
        /\ call.cmd = "none"
        /\ call' = [NoCall EXCEPT !.cmd = "normalize",
                                  !.kw = [permissions |-> permissions],
                                  !.ret = _normalize_permissions(permissions)]
        /\ UNCHANGED <<aci_attr, taskgroups, groups, conc>>

InitN == Init /\ aci_attr = <<>>

NextN == Normalize \/ Output

SpecN == InitN /\ [][NextN]_vars

\* ------------------------------------------- two requests run concurrently
\* the keyword arguments of the concurrent Create requests
ConcCreateKw ==
    { [taskgroup |-> T1, permissions |-> <<"read">>],
      [taskgroup |-> T2, permissions |-> <<"read">>, memberof |-> "g2"] }

\* the bookkeeping of a request that touches the attribute after its read
Finish(p, r) ==
    /\ pc' = [pc EXCEPT ![p] = "done"]
    /\ res' = [res EXCEPT ![p] = r.err]
    /\ writers' = IF r.wrote THEN Append(writers, p) ELSE writers
    /\ overlap' = (overlap \/ (r.wrote /\ \E q \in Procs \ {p} : pc[q] = "read"))

\* aci2_create.execute up to and including get_entry
CreateRead(p) ==
    \E aciname \in Names, kw \in ConcCreateKw :
        LET made == _make_aci(aciname, kw, taskgroups, groups)
        IN  /\ pc[p] = "idle"
            /\ taskgroups' = made.taskgroups
            /\ req' = [req EXCEPT ![p] = [cmd |-> "create", aciname |-> aciname,
                                          kw |-> kw, made |-> made.aci]]
            /\ IF made.err # ""
               THEN /\ pc' = [pc EXCEPT ![p] = "done"]
                    /\ res' = [res EXCEPT ![p] = made.err]
                    /\ UNCHANGED snap
               ELSE /\ pc' = [pc EXCEPT ![p] = "read"]
                    /\ snap' = [snap EXCEPT ![p] = get_entry(aci_attr)]
                    /\ UNCHANGED res
            /\ UNCHANGED <<aci_attr, groups, call, writers, overlap>>

\* aci2_create.execute from the duplicate check to the return
CreateWrite(p) ==
    LET r == create_after_read([err |-> "", aci |-> req[p].made,
                                taskgroups |-> taskgroups], snap[p], aci_attr)
    IN  /\ pc[p] = "read" /\ req[p].cmd = "create"
        /\ aci_attr' = r.stored
        /\ Finish(p, r)
        /\ UNCHANGED <<taskgroups, groups, call, req, snap>>

\* aci2_delete.execute up to and including get_entry
DeleteRead(p) ==
    \E aciname \in Names :
        /\ pc[p] = "idle"
        /\ pc' = [pc EXCEPT ![p] = "read"]
        /\ req' = [req EXCEPT ![p] = [cmd |-> "delete", aciname |-> aciname,
                                      kw |-> EmptyDict, made |-> NewACI]]
        /\ snap' = [snap EXCEPT ![p] = get_entry(aci_attr)]
        /\ UNCHANGED <<aci_attr, taskgroups, groups, call, res, writers, overlap>>

\* aci2_delete.execute from the decoding to the return
DeleteWrite(p) ==
    LET r == delete_after_read(snap[p], aci_attr, req[p].aciname)
    IN  /\ pc[p] = "read" /\ req[p].cmd = "delete"
        /\ aci_attr' = r.stored
        /\ Finish(p, r)
        /\ UNCHANGED <<taskgroups, groups, call, req, snap>>

NextC ==
    \E p \in Procs :
        CreateRead(p) \/ CreateWrite(p) \/ DeleteRead(p) \/ DeleteWrite(p)

SpecC == Init /\ [][NextC]_vars

\* ------------------------------------------------ vocabulary of the claims
\* the stored text decodes and its name is aciname, case ignored
NameMatches(text, aciname) ==
    ~text.malformed /\ Lower(text.acl) = Lower(aciname)

\* position of the first stored text that decodes and carries the name, or 0
FirstByName(store, aciname) ==
    LET hits == {i \in DOMAIN store : NameMatches(store[i], aciname)}
    IN  IF hits = {} THEN 0 ELSE Min(hits)

\* the list without its i-th value
RemoveAt(s, i) == [j \in 1..(Len(s) - 1) |-> IF j < i THEN s[j] ELSE s[j + 1]]

\* the stored texts that decode, in stored order
Decodable(store) == SelectSeq(store, LAMBDA t : ~t.malformed)

\* what the last call's request builds
Candidate == _make_aci(call.aciname, call.kw, call.tg_before, groups)

\* some decodable value stored before the last call equals its candidate
CandidateStored ==
    \E i \in DOMAIN call.before :
        /\ ~call.before[i].malformed
        /\ isequal(Parse(call.before[i]), Candidate.aci)

\* C1: a Create whose candidate is structurally equal to a decodable stored
\* ACI fails with DuplicateEntry and leaves the aci attribute as it was.
C1_DuplicateRejected ==
    (call.cmd = "create" /\ Candidate.err = "" /\ CandidateStored)
        => (call.err = "DuplicateEntry" /\ aci_attr = call.before)

\* a Create was rejected though no stored text is the candidate's text
C1_Witness ==
    /\ call.cmd = "create" /\ Candidate.err = "" /\ CandidateStored
    /\ call.err = "DuplicateEntry"
    /\ Serialize(Candidate.aci) \notin Range(call.before)

\* C2: a Create with a new candidate and resolvable group references
\* succeeds, appends the serialized candidate to the aci attribute, keeps the
\* values stored before and returns the serialized candidate.
C2_CreateAppends ==
    (call.cmd = "create" /\ Candidate.err = "" /\ ~CandidateStored)
        => /\ call.err = ""
           /\ aci_attr = Append(call.before, Serialize(Candidate.aci))
           /\ call.ret = <<Serialize(Candidate.aci)>>

\* C3: after a Create of a new candidate, Show of the same name returns an ACI
\* structurally equal to the candidate.
C3_CreateThenShow ==
    (call.cmd = "create" /\ Candidate.err = "" /\ ~CandidateStored)
        => /\ call.err = ""
           /\ aci2_show(aci_attr, call.aciname).err = ""
           /\ isequal(Parse(aci2_show(aci_attr, call.aciname).ret[1]), Candidate.aci)

\* C4: Delete of a name carried by a decodable stored ACI succeeds and removes
\* exactly one value, the first one structurally equal to the ACI found by
\* name; every other value stays, in order.
C4_DeleteRemovesOne ==
    (call.cmd = "delete" /\ FirstByName(call.before, call.aciname) # 0)
        => LET found == Parse(call.before[FirstByName(call.before, call.aciname)])
               first == Min({i \in DOMAIN call.before :
                                /\ ~call.before[i].malformed
                                /\ isequal(found, Parse(call.before[i]))})
           IN  /\ call.err = ""
               /\ aci_attr = RemoveAt(call.before, first)

\* a Delete removed one value and left behind a value of the same name, or a
\* malformed one
C4_Witness ==
    /\ call.cmd = "delete" /\ call.err = ""
    /\ Len(call.before) = Len(aci_attr) + 1
    /\ \E i \in DOMAIN aci_attr :
          aci_attr[i].malformed \/ Lower(aci_attr[i].acl) = Lower(call.aciname)

\* C5: Show, Delete and Modify of a name no decodable stored ACI carries fail
\* with NotFound and write nothing; Modify runs neither of its two steps.
C5_NotFoundNoWrite ==
    (call.cmd \in {"show", "delete", "mod"}
        /\ FirstByName(call.before, call.aciname) = 0)
        => /\ call.err = "NotFound"
           /\ aci_attr = call.before
           /\ taskgroups = call.tg_before
           /\ ~call.deleted /\ ~call.created

\* a Modify failed with NotFound on a non-empty attribute
C5_Witness ==
    /\ call.cmd = "mod" /\ call.err = "NotFound"
    /\ FirstByName(call.before, call.aciname) = 0
    /\ call.before # <<>>

\* the group references of the last call's request resolve
ReferencesResolve ==
    /\ "memberof" \in DOMAIN call.kw => call.kw.memberof \in groups
    /\ "targetgroup" \in DOMAIN call.kw => call.kw.targetgroup \in groups

\* C6: a Modify of an existing ACI that supplies some of the fields succeeds;
\* the attribute then holds as many values as before and, under that name, an
\* ACI with the requested permissions when supplied and the former ones when
\* not, and with the former grantee when no task-group is supplied.
C6_ModifyMerges ==
    (call.cmd = "mod" /\ FirstByName(call.before, call.aciname) # 0
        /\ call.kw # EmptyDict /\ ReferencesResolve)
        => LET old == Parse(call.before[FirstByName(call.before, call.aciname)])
           IN  /\ call.err = ""
               /\ Len(aci_attr) = Len(call.before)
               /\ \E i \in DOMAIN aci_attr :
                     /\ NameMatches(aci_attr[i], call.aciname)
                     /\ Parse(aci_attr[i]).permissions =
                            (IF "permissions" \in DOMAIN call.kw
                             THEN call.kw.permissions ELSE old.permissions)
                     /\ "taskgroup" \notin DOMAIN call.kw
                            => Parse(aci_attr[i]).bindrule = old.bindrule

\* C7: when the create step of a Modify fails after its delete step, the
\* value the delete step removed is not put back: the attribute is the list
\* read before the Modify without that value.
C7_ModifyNotRestored ==
    (call.cmd = "mod" /\ call.deleted /\ call.created /\ call.err # "")
        => LET i == FirstByName(call.before, call.aciname)
           IN  /\ i # 0
               /\ aci_attr = RemoveAt(call.before, i)
               /\ call.before[i] \notin Range(aci_attr)

\* a Modify lost its ACI to a DuplicateEntry against another stored ACI
C7_Witness ==
    /\ call.cmd = "mod" /\ call.deleted /\ call.created
    /\ call.err = "DuplicateEntry"
    /\ Len(aci_attr) = Len(call.before) - 1

\* what update_entry of request p stores, from the entry p read
WrittenBy(p) ==
    LET read == dict_get(snap[p], "aci", <<>>)
    IN  IF req[p].cmd = "delete"
        THEN RemoveAt(read, FirstByName(read, req[p].aciname))
        ELSE Append(read, Serialize(req[p].made))

BothSucceededOverlapping ==
    /\ \A p \in Procs : pc[p] = "done" /\ res[p] = ""
    /\ Len(writers) = 2
    /\ overlap

\* C8: nothing guards the read-modify-write: when two mutating requests both
\* read the attribute before either writes and both return success, the
\* attribute holds what the later writer computed from the entry it read.
C8_LaterWriterWins ==
    BothSucceededOverlapping => aci_attr = WrittenBy(writers[2])

\* both requests succeeded and the value the first writer removed is stored
C8_Witness ==
    /\ BothSucceededOverlapping
    /\ aci_attr = WrittenBy(writers[2])
    /\ LET first == writers[1]
           read == dict_get(snap[first], "aci", <<>>)
       IN  /\ req[first].cmd = "delete"
           /\ read[FirstByName(read, req[first].aciname)] \in Range(aci_attr)
           /\ aci_attr # WrittenBy(first)

\* C9: a stored value that does not parse never makes Find or Show fail: the
\* result is the one the same command gives on the attribute without the
\* values that do not parse.
C9_MalformedSkipped ==
    /\ call.cmd = "find" =>
          LET clean == aci2_find(Decodable(call.before), call.tg_before, groups,
                                 call.term, call.kw)
          IN  call.err = clean.err /\ call.ret = clean.ret
    /\ call.cmd = "show" =>
          LET clean == aci2_show(Decodable(call.before), call.aciname)
          IN  call.err = clean.err /\ call.ret = clean.ret

\* a Find returned ACIs stored after a value that does not parse
C9_Witness ==
    /\ call.cmd = "find" /\ call.err = "" /\ call.ret # <<>>
    /\ Len(call.before) >= 2
    /\ call.before[1].malformed

\* the canonical texts of the decodable stored ACIs whose name contains the
\* term, case ignored, in stored order
TermMatches(store, term) ==
    LET hit == SelectSeq(store,
                   LAMBDA t : ~t.malformed /\ Contains(Lower(t.acl), Lower(term)))
    IN  [i \in 1..Len(hit) |-> Serialize(Parse(hit[i]))]

\* C10: Find with a term and no other criterion returns exactly the decodable
\* stored ACIs whose name contains the term, case ignored, in stored order;
\* with the empty term, every decodable stored ACI.
C10_FindByTerm ==
    (call.cmd = "find" /\ call.kw = EmptyDict)
        => /\ call.err = ""
           /\ call.ret = TermMatches(call.before, call.term)
           /\ call.term = <<>> =>
                 Len(call.ret) = Cardinality({i \in DOMAIN call.before :
                                                 ~call.before[i].malformed})

\* a Find by term kept one stored ACI and dropped another
C10_Witness ==
    /\ call.cmd = "find" /\ call.kw = EmptyDict /\ call.term # <<>>
    /\ Len(call.ret) = 1
    /\ Len(Decodable(call.before)) = 2
    /\ call.term # Lower(call.term)

\* the keyword arguments without one of them
Without(kw, key) == [k \in (DOMAIN kw) \ {key} |-> kw[k]]

\* what the last Find returns when one criterion is taken out of its request
FindWithout(key) ==
    aci2_find(call.before, call.tg_before, groups, call.term, Without(call.kw, key))

\* C11: Find with a permissions criterion keeps exactly the ACIs whose
\* permissions are the requested ones as a set, whatever the order: of what
\* the other criteria leave, those and only those are returned.
C11_FindByPermissions ==
    (call.cmd = "find" /\ "permissions" \in DOMAIN call.kw)
        => /\ call.err = FindWithout("permissions").err
           /\ call.ret = SelectSeq(FindWithout("permissions").ret,
                            LAMBDA t : Range(t.allow) = Range(call.kw.permissions))

\* a Find for write,read returned a stored read,write and left out a stored
\* read,write,add
C11_Witness ==
    /\ call.cmd = "find" /\ call.kw = [permissions |-> <<"write", "read">>]
    /\ \E i \in DOMAIN call.ret : call.ret[i].allow = <<"read", "write">>
    /\ \E i \in DOMAIN call.before :
          /\ ~call.before[i].malformed
          /\ call.before[i].allow = <<"read", "write", "add">>
    /\ \A i \in DOMAIN call.ret : call.ret[i].allow # <<"read", "write", "add">>

\* the ACI a Create for the task-group builds
BuiltFor(tg) ==
    _make_aci(<<"a">>, [taskgroup |-> tg, permissions |-> <<"read">>],
              call.tg_before, groups).aci

\* C12: Find with a taskgroup criterion, when the name resolves, keeps of what
\* the other criteria leave exactly the ACIs whose bind rule expression is the
\* URI of that task-group's DN, the one a Create for that task-group builds;
\* when the name does not resolve it filters nothing and raises nothing; it
\* never creates the task-group.
C12_FindByTaskgroup ==
    (call.cmd = "find" /\ "taskgroup" \in DOMAIN call.kw)
        => LET tg == call.kw.taskgroup
               uri == [base |-> tg.base, wrap |-> tg.wrap + 1]
           IN  /\ taskgroups = call.tg_before
               /\ call.err = FindWithout("taskgroup").err
               /\ call.ret =
                     IF tg \in call.tg_before
                     THEN SelectSeq(FindWithout("taskgroup").ret,
                                    LAMBDA t : t.bind[3] = uri)
                     ELSE FindWithout("taskgroup").ret
               /\ tg \in call.tg_before =>
                     aci2_find(<<Serialize(BuiltFor(tg))>>, call.tg_before, groups,
                               <<>>, [taskgroup |-> tg]).ret
                         = <<Serialize(BuiltFor(tg))>>

\* a Find by a task-group that resolves kept one stored ACI and dropped one
C12_Witness ==
    /\ call.cmd = "find" /\ call.kw = [taskgroup |-> T1] /\ call.term = <<>>
    /\ T1 \in call.tg_before
    /\ Len(call.ret) = 1
    /\ Len(Decodable(call.before)) = 2

\* the stored text carries the target filter (memberOf=<DN of group g>)
HasMemberOfFilter(t, g) ==
    /\ "targetfilter" \in DOMAIN t.clauses
    /\ t.clauses.targetfilter.expression = [paren |-> TRUE, body |-> MemberOfBody(g)]

\* C13: Find with a memberof criterion that resolves returns, of what the
\* other criteria leave, only the ACIs whose target filter is exactly
\* (memberOf=<DN>): an ACI with another filter or with none is absent; when
\* the group does not resolve the criterion removes nothing and raises nothing.
C13_FindByMemberof ==
    (call.cmd = "find" /\ "memberof" \in DOMAIN call.kw)
        => /\ call.err = FindWithout("memberof").err
           /\ call.ret =
                 IF call.kw.memberof \in groups
                 THEN SelectSeq(FindWithout("memberof").ret,
                                LAMBDA t : HasMemberOfFilter(t, call.kw.memberof))
                 ELSE FindWithout("memberof").ret

\* a Find by memberof and permissions: both stored ACIs have the permissions,
\* one of them is dropped for its target filter
C13_Witness ==
    /\ call.cmd = "find"
    /\ call.kw = [permissions |-> <<"write", "read">>, memberof |-> "g1"]
    /\ Len(FindWithout("memberof").ret) = 2
    /\ Len(call.ret) = 1
    /\ HasMemberOfFilter(call.ret[1], "g1")

\* the attribute names, lowered, as a set
LoweredSet(tokens) == {LowerToken(tokens[i]) : i \in DOMAIN tokens}

\* the stored text has a targetattr clause naming these attributes, case and
\* order ignored
HasAttrs(t, attrs) ==
    /\ "targetattr" \in DOMAIN t.clauses
    /\ LoweredSet(t.clauses.targetattr.expression) = LoweredSet(attrs)

\* C14: Find with an attrs criterion keeps, of what the other criteria leave,
\* exactly the ACIs whose target attributes are the requested ones as a set,
\* case and order ignored; an ACI with no targetattr clause does not match.
C14_FindByAttrs ==
    (call.cmd = "find" /\ "attrs" \in DOMAIN call.kw)
        => /\ call.err = FindWithout("attrs").err
           /\ call.ret = SelectSeq(FindWithout("attrs").ret,
                            LAMBDA t : HasAttrs(t, call.kw.attrs))

\* C15: the builder applies the target qualifiers in a fixed order and the
\* last one supplied wins: the target clause is set by subtree if supplied,
\* else by targetgroup, else by type; the target filter by filter if supplied,
\* else by memberof; a subtree that lacks the scheme ldap:/// gets it, one that
\* has it is used as is.
C15_LastWriteWins ==
    (call.cmd = "create" /\ Candidate.err = "")
        => LET kw == call.kw
               t == Candidate.aci.target
           IN  /\ IF "subtree" \in DOMAIN kw
                  THEN /\ "target" \in DOMAIN t
                       /\ t.target.expression.scheme
                       /\ t.target.expression.rest = kw.subtree.rest
                  ELSE IF "targetgroup" \in DOMAIN kw
                  THEN /\ "target" \in DOMAIN t
                       /\ t.target.expression =
                             [scheme |-> TRUE, rest |-> GroupDN(kw.targetgroup)]
                  ELSE IF "type" \in DOMAIN kw
                  THEN /\ "target" \in DOMAIN t
                       /\ t.target.expression = _type_map[kw.type]
                  ELSE "target" \notin DOMAIN t
               /\ IF "filter" \in DOMAIN kw
                  THEN /\ "targetfilter" \in DOMAIN t
                       /\ t.targetfilter.expression.body = kw.filter.body
                  ELSE IF "memberof" \in DOMAIN kw
                  THEN /\ "targetfilter" \in DOMAIN t
                       /\ t.targetfilter.expression.body = MemberOfBody(kw.memberof)
                  ELSE "targetfilter" \notin DOMAIN t

\* a Create was given every qualifier, its subtree without the scheme
C15_Witness ==
    /\ call.cmd = "create" /\ Candidate.err = ""
    /\ {"type", "targetgroup", "subtree", "memberof", "filter"} \subseteq DOMAIN call.kw
    /\ ~call.kw.subtree.scheme
    /\ Candidate.aci.target.target.expression.scheme

\* the last call names a group, as memberof or as targetgroup, that does not
\* resolve
ReferenceUnresolved ==
    \/ "memberof" \in DOMAIN call.kw /\ group2_show_fails(groups, call.kw.memberof)
    \/ "targetgroup" \in DOMAIN call.kw
           /\ group2_show_fails(groups, call.kw.targetgroup)

\* C16: group resolution in the builder is asymmetric. A task-group that does
\* not resolve is created under the requested name with the ACI name as its
\* description and the bind rule of the ACI refers to it, so the task-group
\* resolves after the Create; a memberof or targetgroup that does not resolve
\* is never created: the Create fails with NotFound and the aci attribute is
\* left as it was.
C16_GroupResolution ==
    call.cmd = "create"
        => /\ ~taskgroup2_show_fails(taskgroups, call.kw.taskgroup)
           /\ IF taskgroup2_show_fails(call.tg_before, call.kw.taskgroup)
              THEN /\ taskgroups = call.tg_before \cup {call.kw.taskgroup}
                   /\ Candidate.tg_created =
                         <<[name |-> call.kw.taskgroup,
                            description |-> call.aciname]>>
              ELSE /\ taskgroups = call.tg_before
                   /\ Candidate.tg_created = <<>>
           /\ Candidate.err = ""
                 => Candidate.aci.bindrule.expression = TaskgroupUri(call.kw.taskgroup)
           /\ ReferenceUnresolved
                 => /\ call.err = "NotFound"
                    /\ aci_attr = call.before
                    /\ groups = {"g1"}
           /\ ~ReferenceUnresolved => call.err # "NotFound"

\* a Create named a task-group that did not resolve and groups that do
C16_Witness ==
    /\ call.cmd = "create"
    /\ taskgroup2_show_fails(call.tg_before, call.kw.taskgroup)
    /\ ~ReferenceUnresolved
    /\ call.kw.taskgroup \in taskgroups

\* the decodable values of the store that carry the name but differ in body
\* from the first that carries it
OtherBodies(store, aciname) ==
    LET i == FirstByName(store, aciname)
    IN  {j \in DOMAIN store :
            /\ NameMatches(store[j], aciname)
            /\ ~isequal(Parse(store[j]), Parse(store[i]))}

\* C17: Create detects duplicates by structural equality, not by name: a
\* Create whose name is, case ignored, that of a stored ACI while no stored ACI
\* equals its candidate is not rejected with DuplicateEntry. Among several
\* stored ACIs of one name, Show returns the first in stored order, and Delete
\* and the delete step of Modify remove the first and leave the others.
C17_DuplicateByStructure ==
    LET i == FirstByName(call.before, call.aciname)
    IN  /\ (call.cmd = "create" /\ Candidate.err = "" /\ i # 0 /\ ~CandidateStored)
               => call.err # "DuplicateEntry"
        /\ (call.cmd = "show" /\ i # 0)
               => /\ call.err = ""
                  /\ call.ret = <<Serialize(Parse(call.before[i]))>>
        /\ (i # 0 /\ (call.cmd = "delete" \/ (call.cmd = "mod" /\ call.deleted)))
               => LET left == IF call.cmd = "delete" THEN aci_attr
                               ELSE call.after_delete
                  IN  /\ left = RemoveAt(call.before, i)
                      /\ \A j \in OtherBodies(call.before, call.aciname) :
                            call.before[j] \in Range(left)

\* a Create under the name of a stored ACI, with another body, was not taken
\* for a duplicate
C17_Witness ==
    /\ call.cmd = "create" /\ Candidate.err = ""
    /\ FirstByName(call.before, call.aciname) # 0
    /\ ~CandidateStored
    /\ call.err # "DuplicateEntry"

\* the words of a permissions string, trimmed and lowered, in order
Words(permissions) ==
    [i \in 1..Len(permissions) |-> LowerToken(permissions[i].word)]

\* position of the first occurrence of w in words
FirstAt(words, w) == Min({i \in DOMAIN words : words[i] = w})

\* out lists, once each and without blanks, the valid words of the string in
\* the order of their first occurrence; the empty string stands for none
IsNormalForm(out, permissions) ==
    LET words == Words(permissions)
        valid == {w \in Range(words) :
                     w \in {"read", "write", "add", "delete", "selfwrite", "all"}}
    IN  IF valid = {} THEN out = <<[lead |-> FALSE, word |-> "", trail |-> FALSE]>>
        ELSE /\ Len(out) = Cardinality(valid)
             /\ {out[i].word : i \in DOMAIN out} = valid
             /\ \A i \in DOMAIN out : ~out[i].lead /\ ~out[i].trail
             /\ \A i, j \in DOMAIN out :
                   i < j => FirstAt(words, out[i].word) < FirstAt(words, out[j].word)

\* "read, READ ,write"
C18_Example ==
    <<[lead |-> FALSE, word |-> "read", trail |-> FALSE],
      [lead |-> TRUE, word |-> "READ", trail |-> TRUE],
      [lead |-> FALSE, word |-> "write", trail |-> FALSE]>>

\* C18: the normalizer trims and lowers each comma-separated token, drops the
\* tokens that are not permissions, keeps one of each in the order of first
\* occurrence, and normalizing its result again changes nothing;
\* "read, READ ,write" gives "read,write".
C18_NormalizeIdempotent ==
    call.cmd = "normalize"
        => /\ IsNormalForm(call.ret, call.kw.permissions)
           /\ _normalize_permissions(call.ret) = call.ret
           /\ call.kw.permissions = C18_Example
                 => call.ret = <<[lead |-> FALSE, word |-> "read", trail |-> FALSE],
                                 [lead |-> FALSE, word |-> "write", trail |-> FALSE]>>

\* "read, READ ,write" was normalized to "read,write"
C18_Witness ==
    /\ call.cmd = "normalize"
    /\ call.kw.permissions = C18_Example
    /\ Len(call.ret) = 2

\* the canonical text t of a stored ACI satisfies every criterion the last
\* Find supplied, each taken by itself
SatisfiesAll(t) ==
    LET kw == call.kw
    IN  /\ Contains(Lower(t.acl), Lower(call.term))
        /\ "aciname" \in DOMAIN kw => t.acl = kw.aciname
        /\ "attrs" \in DOMAIN kw => HasAttrs(t, kw.attrs)
        /\ ("taskgroup" \in DOMAIN kw /\ kw.taskgroup \in call.tg_before)
               => t.bind[3] = [base |-> kw.taskgroup.base,
                               wrap |-> kw.taskgroup.wrap + 1]
        /\ "permissions" \in DOMAIN kw => Range(t.allow) = Range(kw.permissions)
        /\ ("memberof" \in DOMAIN kw /\ kw.memberof \in groups)
               => HasMemberOfFilter(t, kw.memberof)

\* the canonical texts of the decodable stored values, in stored order
CanonicalTexts(store) ==
    LET d == Decodable(store)
    IN  [i \in 1..Len(d) |-> Serialize(Parse(d[i]))]

\* C19: the Find filters are independent: whatever is stored and whichever
\* criteria are supplied, Find returns exactly the decodable stored ACIs that
\* satisfy every supplied criterion, one per stored value, in stored order.
C19_FindIndependent ==
    call.cmd = "find"
        => /\ call.err = ""
           /\ call.ret = SelectSeq(CanonicalTexts(call.before), SatisfiesAll)

\* the same for the Finds that return
C19_WhenFindReturns ==
    (call.cmd = "find" /\ call.err = "")
        => call.ret = SelectSeq(CanonicalTexts(call.before), SatisfiesAll)

\* C20: Find and Show are read-only: whether they return or fail, the aci
\* attribute, the task-groups and the groups are after the call what they were
\* before it.
C20_ReadOnly ==
    call.cmd \in {"find", "show"}
        => /\ aci_attr = call.before
           /\ taskgroups = call.tg_before
           /\ groups = {"g1"}

\* a Find named a task-group that does not resolve, over a stored ACI
C20_Witness ==
    /\ call.cmd = "find"
    /\ "taskgroup" \in DOMAIN call.kw
    /\ taskgroup2_show_fails(call.tg_before, call.kw.taskgroup)
    /\ call.before # <<>>
    /\ call.err = ""

====
